---------------------------- MODULE Spec2Model ----------------------------
(***************************************************************************)
(* A model of wavemeta.py: the Masks bit catalog, WavMetadata.as_dict and  *)
(* as_csv_string, make_flags, convert_full_data_to_csv and main.           *)
(*                                                                         *)
(* Python values are tagged records (PyNone, PyInt, PyStr, PyFloat,        *)
(* PyDict).  A dict is the sequence of its items in insertion order.  A    *)
(* call's outcome is Return(value) or Raise(exception name).               *)
(***************************************************************************)
EXTENDS Integers, Sequences, FiniteSets, TLC

VARIABLES
    self,        \* the WavMetadata record as_dict is called on (its raw header)
    named,       \* the named booleans passed to make_flags, or Unset
    flags,       \* the flags value handed to as_dict / computed by make_flags
    ret,         \* outcome of as_dict(flags), or Unset
    csv_string,  \* outcome of as_csv_string(flags), or Unset
    puts,        \* history: the (entry, data) pairs supplied to the aggregate
    full_data,   \* the aggregate dict {filename -> field map}
    csv,         \* outcome of convert_full_data_to_csv(full_data), or Unset
    args,        \* main: the parsed command line
    listing,     \* main: os.listdir(input_directory), in listing order
    idx,         \* main: position of the for loop in the listing
    pc,          \* main: control point
    exc,         \* main: the exception that ended the run, or "none"
    csv_file,    \* <output_file>.csv on disk
    json_file,   \* <output_file>.json on disk
    stdout       \* what main printed

vars == <<self, named, flags, ret, csv_string, puts, full_data, csv,
          args, listing, idx, pc, exc, csv_file, json_file, stdout>>

dictVars == <<self, named, flags, ret, csv_string>>
aggVars  == <<puts, csv>>
mainVars == <<args, listing, idx, pc, exc, csv_file, json_file, stdout>>

-----------------------------------------------------------------------------
(* Python values *)

Unset == [t |-> "unset"]
PyNone == [t |-> "None"]
PyInt(n) == [t |-> "int", v |-> n]
PyStr(s) == [t |-> "str", v |-> s]
\* a float is carried as the text CPython's repr gives it (see FloatRepr)
PyFloat(r) == [t |-> "float", v |-> r]
PyDict(items) == [t |-> "dict", v |-> items]

Return(x) == [kind |-> "return", value |-> x]
Raise(e) == [kind |-> "raise", value |-> e]

Item(k, v) == [k |-> k, v |-> v]

\* list(d): the keys of a dict in insertion order
Keys(items) == [i \in 1..Len(items) |-> items[i].k]

KeySet(items) == {items[i].k : i \in 1..Len(items)}

\* d[k] = v: an existing key keeps its position and takes the new value,
\* a new key is appended
DictAppendAlways(items, k, v) == Append(items, Item(k, v))

DictSet(items, k, v) ==
    IF \E i \in 1..Len(items) : items[i].k = k
    THEN [i \in 1..Len(items) |->
            IF items[i].k = k THEN Item(k, v) ELSE items[i]]
    ELSE Append(items, Item(k, v))

\* d[k] for a key that is present
DictGet(items, k) == items[CHOOSE i \in 1..Len(items) : items[i].k = k].v

-----------------------------------------------------------------------------
(* Masks *)

Shl(a, k) == a * 2^k

Masks ==
    [ NONE         |-> 0,
      NUM_CHANNELS |-> 1,
      BYTES        |-> Shl(1, 1),
      BITS         |-> Shl(1, 2),
      FREQ         |-> Shl(1, 3),
      FREQK        |-> Shl(1, 4),
      LENGTH       |-> Shl(1, 5),
      LENGTH_M     |-> Shl(1, 6),
      LENGTH_U     |-> Shl(1, 7),
      NUM_FRAMES   |-> Shl(1, 8),
      COMP_NAME    |-> Shl(1, 9),
      COMP_TYPE    |-> Shl(1, 10) ]

\* max(Masks).value: the member no other member is greater than (__gt__
\* compares the values)
MaxMask ==
    LET S == {Masks[m] : m \in DOMAIN Masks}
    IN CHOOSE x \in S : \A y \in S : x >= y

\* A non-negative Python int as the set of its set bit positions (Python
\* ints are unbounded: the zero sentinel sets bits far beyond 32).
RECURSIVE BitsOf(_)
BitsOf(n) ==
    IF n = 0 THEN {}
    ELSE (IF n % 2 = 1 THEN {0} ELSE {}) \cup {i + 1 : i \in BitsOf(n \div 2)}

RECURSIVE Log2(_)
Log2(m) == IF m <= 1 THEN 0 ELSE 1 + Log2(m \div 2)

\* flags & mask is non-zero, for a one-bit mask
HasBit(bits, mask) == Log2(mask) \in bits

-----------------------------------------------------------------------------
(* WavMetadata *)

\* repr of the float expressions of as_dict, as CPython computes them for
\* the frame rates of Headers (TLA+ has no floating point)
FloatRepr(expr, f) ==
    CASE expr = "f / 1000.0" /\ f = 44100      -> "44.1"
      [] expr = "1.0 / f" /\ f = 44100         -> "2.2675736961451248e-05"
      [] expr = "1.0 / f * 10 ** 3" /\ f = 44100 -> "0.022675736961451247"
      [] expr = "1.0 / f * 10 ** 6" /\ f = 44100 -> "22.675736961451246"
      [] expr = "f / 1000.0" /\ f = 8000       -> "8.0"
      [] expr = "1.0 / f" /\ f = 8000          -> "0.000125"
      [] expr = "1.0 / f * 10 ** 3" /\ f = 8000 -> "0.125"
      [] expr = "1.0 / f * 10 ** 6" /\ f = 8000 -> "125.0"

\* what _populate_metadata reads from a readable file
Header(ch, width, rate, frames) ==
    [ _num_channels     |-> ch,
      _bytes_per_sample |-> width,
      _sample_freq      |-> rate,
      _num_frames       |-> frames,
      _comp_type        |-> "NONE",
      _comp_name        |-> "not compressed" ]

Headers == { Header(2, 2, 44100, 4), Header(1, 1, 8000, 0) }

\* the zero sentinel: for i in range(1, max(Masks).value + 1): flags |= 1 << i
SentinelBits == 1..MaxMask

\* the if-statements of as_dict in source order: mask tested, key stored
FieldRulesTypeBeforeName ==
    << <<"NUM_CHANNELS", "Number Of Channels">>,
       <<"BYTES",        "Bytes Per Sample">>,
       <<"BITS",         "Bits Per Sample">>,
       <<"FREQ",         "Sample Rate (Hz)">>,
       <<"FREQK",        "Sample Rate (kHz)">>,
       <<"LENGTH",       "Time Between Samples (s)">>,
       <<"LENGTH_M",     "Time Between Samples (ms)">>,
       <<"LENGTH_U",     "Time Between Samples (us)">>,
       <<"NUM_FRAMES",   "Number Of Samples">>,
       <<"COMP_TYPE",    "Compression Type">>,
       <<"COMP_NAME",    "Compression Name">> >>

FieldRules ==
    << <<"NUM_CHANNELS", "Number Of Channels">>,
       <<"BYTES",        "Bytes Per Sample">>,
       <<"BITS",         "Bits Per Sample">>,
       <<"FREQ",         "Sample Rate (Hz)">>,
       <<"FREQK",        "Sample Rate (kHz)">>,
       <<"LENGTH",       "Time Between Samples (s)">>,
       <<"LENGTH_M",     "Time Between Samples (ms)">>,
       <<"LENGTH_U",     "Time Between Samples (us)">>,
       <<"NUM_FRAMES",   "Number Of Samples">>,
       <<"COMP_NAME",    "Compression Name">>,
       <<"COMP_TYPE",    "Compression Type">> >>

\* the value each if-statement stores
FieldValue(w, mask) ==
    CASE mask = "NUM_CHANNELS" -> PyInt(w._num_channels)
      [] mask = "BYTES"        -> PyInt(w._bytes_per_sample)
      [] mask = "BITS"         -> PyInt(w._bytes_per_sample * 8)
      [] mask = "FREQ"         -> PyInt(w._sample_freq)
      [] mask = "FREQK"    -> PyFloat(FloatRepr("f / 1000.0", w._sample_freq))
      [] mask = "LENGTH"   -> PyFloat(FloatRepr("1.0 / f", w._sample_freq))
      [] mask = "LENGTH_M" -> PyFloat(FloatRepr("1.0 / f * 10 ** 3", w._sample_freq))
      [] mask = "LENGTH_U" -> PyFloat(FloatRepr("1.0 / f * 10 ** 6", w._sample_freq))
      [] mask = "NUM_FRAMES"   -> PyInt(w._num_frames)
      [] mask = "COMP_NAME"    -> PyStr(w._comp_name)
      [] mask = "COMP_TYPE"    -> PyStr(w._comp_type)

\* data = {} followed by the if-statements, for the bit set `bits`
RECURSIVE Populate(_, _, _, _)
Populate(w, bits, i, data) ==
    IF i > Len(FieldRules) THEN data
    ELSE LET mask == FieldRules[i][1]
             name == FieldRules[i][2]
         IN Populate(w, bits, i + 1,
                IF HasBit(bits, Masks[mask])
                THEN DictSet(data, name, FieldValue(w, mask))
                ELSE data)

\* WavMetadata.as_dict(flags).  The guard evaluates flags < 0 first, which
\* raises TypeError on None before `flags is None` is looked at.
as_dict(w, fl) ==
    IF fl.t = "None" THEN Raise("TypeError")
    ELSE IF fl.v < Masks.NONE \/ fl.v > MaxMask THEN Return(PyNone)
    ELSE LET bits == IF fl.v = 0 THEN SentinelBits ELSE BitsOf(fl.v)
         IN Return(PyDict(Populate(w, bits, 1, <<>>)))

\* str(value)
Str(x) ==
    CASE x.t = "int"   -> ToString(x.v)
      [] x.t = "str"   -> x.v
      [] x.t = "float" -> x.v
      [] x.t = "None"  -> "None"

RECURSIVE CsvLines(_)
CsvLines(items) ==
    IF items = <<>> THEN ""
    ELSE (Head(items).k \o "," \o Str(Head(items).v) \o "\n")
         \o CsvLines(Tail(items))

\* WavMetadata.as_csv_string(flags): None has no .items()
as_csv_string(w, fl) ==
    LET d == as_dict(w, fl)
    IN IF d.kind = "raise" THEN d
       ELSE IF d.value.t = "None" THEN Raise("AttributeError")
       ELSE Return(PyStr(CsvLines(d.value.v)))

-----------------------------------------------------------------------------
(* make_flags *)

Params ==
    << "num_channels", "bytes_per_sample", "bits_per_sample", "sample_freq",
       "sample_freq_kHz", "sample_length", "sample_length_millis",
       "sample_length_micros", "num_frames", "comp_type", "comp_name" >>

ParamSet == {Params[i] : i \in 1..Len(Params)}

int(b) == IF b THEN 1 ELSE 0

\* the bits are distinct, so the | of the source is a sum
make_flags(b) ==
      int(b["num_channels"])
    + Shl(int(b["bytes_per_sample"]), 1)
    + Shl(int(b["bits_per_sample"]), 2)
    + Shl(int(b["sample_freq"]), 3)
    + Shl(int(b["sample_freq_kHz"]), 4)
    + Shl(int(b["sample_length"]), 5)
    + Shl(int(b["sample_length_millis"]), 6)
    + Shl(int(b["sample_length_micros"]), 7)
    + Shl(int(b["num_frames"]), 8)
    + Shl(int(b["comp_type"]), 9)
    + Shl(int(b["comp_name"]), 10)

-----------------------------------------------------------------------------
(* Strings.  A display name is a TLA+ string; a file name is the sequence  *)
(* of its characters, so that endswith and slicing are computed.           *)

\* the display names in Python's str order (code point order), as
\* list.sort() orders them
SortedNames ==
    << "Bits Per Sample", "Bytes Per Sample", "Compression Name",
       "Compression Type", "Number Of Channels", "Number Of Samples",
       "Sample Rate (Hz)", "Sample Rate (kHz)", "Time Between Samples (ms)",
       "Time Between Samples (s)", "Time Between Samples (us)" >>

NameRank(n) == CHOOSE i \in 1..Len(SortedNames) : SortedNames[i] = n

\* a < b on display names
NameLess(a, b) == NameRank(a) < NameRank(b)

\* ord(c) of the characters file names are made of
Ord(c) ==
    CASE c = "." -> 46 [] c = "a" -> 97  [] c = "b" -> 98  [] c = "c" -> 99
      [] c = "n" -> 110 [] c = "t" -> 116 [] c = "v" -> 118 [] c = "w" -> 119
      [] c = "x" -> 120

\* a < b on strings given as character sequences
RECURSIVE CharsLess(_, _)
CharsLess(a, b) ==
    IF b = <<>> THEN FALSE
    ELSE IF a = <<>> THEN TRUE
    ELSE IF Head(a) = Head(b) THEN CharsLess(Tail(a), Tail(b))
    ELSE Ord(Head(a)) < Ord(Head(b))

\* the string a character sequence spells
RECURSIVE Text(_)
Text(cs) == IF cs = <<>> THEN "" ELSE Head(cs) \o Text(Tail(cs))

\* s.endswith(suffix)
EndsWith(s, suffix) ==
    /\ Len(s) >= Len(suffix)
    /\ SubSeq(s, Len(s) - Len(suffix) + 1, Len(s)) = suffix

WavExt == <<".", "w", "a", "v">>

\* filename[:-4]
StripExt(s) == SubSeq(s, 1, Len(s) - 4)

\* sep.join(strs)
RECURSIVE JoinTrailing(_, _)
JoinTrailing(sep, strs) ==
    IF strs = <<>> THEN ""
    ELSE Head(strs) \o sep \o JoinTrailing(sep, Tail(strs))

RECURSIVE Join(_, _)
Join(sep, strs) ==
    IF strs = <<>> THEN ""
    ELSE IF Len(strs) = 1 THEN Head(strs)
    ELSE Head(strs) \o sep \o Join(sep, Tail(strs))

\* list.sort() by insertion, under the order `NameLess`
RECURSIVE SortNames(_)
SortNames(l) ==
    IF l = <<>> THEN <<>>
    ELSE LET rest == SortNames(Tail(l))
             x == Head(l)
             k == Cardinality({i \in 1..Len(rest) : NameLess(rest[i], x)})
         IN SubSeq(rest, 1, k) \o <<x>> \o SubSeq(rest, k + 1, Len(rest))

\* list.index(x): the first position of x (0-based in Python, 1-based here)
Index(l, x) == CHOOSE i \in 1..Len(l) :
                  l[i] = x /\ \A j \in 1..(i - 1) : l[j] # x

-----------------------------------------------------------------------------
(* convert_full_data_to_csv *)

\* the header loop: iterating a None value raises TypeError
RECURSIVE CollectHeaders(_, _, _)
CollectHeaders(fd, i, header_row) ==
    IF i > Len(fd) THEN Return(header_row)
    ELSE IF fd[i].v.t # "dict" THEN Raise("TypeError")
    ELSE LET RECURSIVE Inner(_, _)
             Inner(j, hr) ==
                 IF j > Len(fd[i].v.v) THEN hr
                 ELSE LET candidate_header == fd[i].v.v[j].k
                      IN Inner(j + 1,
                            IF \E p \in 1..Len(hr) : hr[p] = candidate_header
                            THEN hr ELSE Append(hr, candidate_header))
         IN CollectHeaders(fd, i + 1, Inner(1, header_row))

\* header_row.sort(); header_row.insert(0, 'Filename')
HeaderRow(collected) == <<"Filename">> \o SortNames(collected)

\* one row: [None] * num_cols, row[0] = filename, then the cells of data
RECURSIVE FillRow(_, _, _, _)
FillRow(header_row, data, j, row) ==
    IF j > Len(data) THEN row
    ELSE FillRow(header_row, data, j + 1,
            [row EXCEPT ![Index(header_row, data[j].k)] = PyStr(Str(data[j].v))])

Row(header_row, filename, data) ==
    FillRow(header_row, data, 1,
            [c \in 1..Len(header_row) |->
                IF c = 1 THEN PyStr(Text(filename)) ELSE PyNone])

\* full_table = [header_row] + one row per item of full_data
FullTable(header_row, fd) ==
    <<[c \in 1..Len(header_row) |-> PyStr(header_row[c])]>>
    \o [i \in 1..Len(fd) |-> Row(header_row, fd[i].k, fd[i].v.v)]

\* ",".join(row) per row, then '\n'.join(tmp); join raises TypeError on a
\* None cell
TableText(full_table, sep) ==
    IF \E r \in 1..Len(full_table) :
          \E c \in 1..Len(full_table[r]) : full_table[r][c].t = "None"
    THEN Raise("TypeError")
    ELSE Return(PyStr(Join("\n",
            [r \in 1..Len(full_table) |->
                Join(sep, [c \in 1..Len(full_table[r]) |-> full_table[r][c].v])])))

convert_full_data_to_csv(fd) ==
    LET collected == CollectHeaders(fd, 1, <<>>)
    IN IF collected.kind = "raise" THEN collected
       ELSE LET header_row == HeaderRow(collected.value)
            IN TableText(FullTable(header_row, fd), ",")

-----------------------------------------------------------------------------
(* The directory and the files in it *)

File(name) ==
    CASE name = "a.wav" -> <<"a", ".", "w", "a", "v">>
      [] name = "b.wav" -> <<"b", ".", "w", "a", "v">>
      [] name = "c.wav" -> <<"c", ".", "w", "a", "v">>
      [] name = "n.txt" -> <<"n", ".", "t", "x", "t">>

\* the names a directory entry may have: two readable wav files, a wav file
\* whose header cannot be read, and a file that is no wav file
DirEntries == {File("a.wav"), File("b.wav"), File("c.wav"), File("n.txt")}

-----------------------------------------------------------------------------
(* as_dict and make_flags on bounded inputs *)

MaxFlagInput == 2050
NegFlagInput == 2

FlagInputs == {PyNone} \cup {PyInt(n) : n \in (0 - NegFlagInput)..MaxFlagInput}

Named(b) == [t |-> "named", v |-> b]

InitDict ==
    /\ self \in Headers
    /\ named = Unset /\ flags = Unset /\ ret = Unset /\ csv_string = Unset
    /\ puts = Unset /\ full_data = Unset /\ csv = Unset
    /\ args = Unset /\ listing = Unset /\ idx = Unset /\ pc = Unset
    /\ exc = Unset /\ csv_file = Unset /\ json_file = Unset /\ stdout = Unset

\* flags = make_flags(<the named booleans>)
MakeFlagsCall ==
    /\ flags = Unset
    /\ \E b \in [ParamSet -> BOOLEAN] :
          /\ named' = Named(b)
          /\ flags' = PyInt(make_flags(b))
    /\ UNCHANGED <<self, ret, csv_string, puts, full_data, csv, mainVars>>

\* the caller passes a flags value of its own
PassFlags ==
    /\ flags = Unset
    /\ \E f \in FlagInputs : flags' = f
    /\ UNCHANGED <<self, named, ret, csv_string, puts, full_data, csv, mainVars>>

AsDictCall ==
    /\ flags # Unset /\ ret = Unset
    /\ ret' = as_dict(self, flags)
    /\ UNCHANGED <<self, named, flags, csv_string, puts, full_data, csv, mainVars>>

AsCsvStringCall ==
    /\ flags # Unset /\ csv_string = Unset
    /\ csv_string' = as_csv_string(self, flags)
    /\ UNCHANGED <<self, named, flags, ret, puts, full_data, csv, mainVars>>

NextDict == MakeFlagsCall \/ PassFlags \/ AsDictCall \/ AsCsvStringCall

SpecDict == InitDict /\ [][NextDict]_vars

-----------------------------------------------------------------------------
(* The aggregate and convert_full_data_to_csv on bounded inputs *)

MaxPuts == 3

\* field maps as as_dict returns them: one-field selections and the None of
\* a rejected selection
FieldMaps ==
    {as_dict(h, PyInt(f)).value :
        h \in Headers, f \in {Masks.NUM_CHANNELS, Masks.FREQ, 2 * MaxMask}}

InitAgg ==
    /\ puts = <<>> /\ full_data = <<>> /\ csv = Unset
    /\ self = Unset /\ named = Unset /\ flags = Unset /\ ret = Unset
    /\ csv_string = Unset
    /\ args = Unset /\ listing = Unset /\ idx = Unset /\ pc = Unset
    /\ exc = Unset /\ csv_file = Unset /\ json_file = Unset /\ stdout = Unset

\* the body of main's loop for one directory entry, the field map supplied
\* by the caller: if filename.endswith('.wav'): full_data[filename[:-4]] = data
StoreEntry(fd, filename, data) ==
    IF EndsWith(filename, WavExt)
    THEN DictSet(fd, StripExt(filename), data)
    ELSE fd

AddEntry ==
    /\ csv = Unset /\ Len(puts) < MaxPuts
    /\ \E filename \in DirEntries, data \in FieldMaps :
          /\ full_data' = StoreEntry(full_data, filename, data)
          /\ puts' = Append(puts, <<filename, data>>)
    /\ UNCHANGED <<csv, dictVars, mainVars>>

Convert ==
    /\ csv = Unset
    /\ csv' = convert_full_data_to_csv(full_data)
    /\ UNCHANGED <<puts, full_data, dictVars, mainVars>>

NextAgg == AddEntry \/ Convert

SpecAgg == InitAgg /\ [][NextAgg]_vars

-----------------------------------------------------------------------------
(* json.dumps(full_data, sort_keys=True, indent=4) *)

\* sorted() of file name keys
RECURSIVE SortChars(_)
SortChars(l) ==
    IF l = <<>> THEN <<>>
    ELSE LET rest == SortChars(Tail(l))
             x == Head(l)
             k == Cardinality({i \in 1..Len(rest) : CharsLess(rest[i], x)})
         IN SubSeq(rest, 1, k) \o <<x>> \o SubSeq(rest, k + 1, Len(rest))

\* a scalar as JSON text
JsonScalar(x) ==
    CASE x.t = "None"  -> "null"
      [] x.t = "int"   -> ToString(x.v)
      [] x.t = "float" -> x.v
      [] x.t = "str"   -> "\"" \o x.v \o "\""

\* an object of the inner level: the field map of one file, keys sorted
JsonFieldMap(x) ==
    IF x.t # "dict" THEN JsonScalar(x)
    ELSE IF x.v = <<>> THEN "{}"
    ELSE LET keys == SortNames(Keys(x.v))
         IN "{\n"
            \o Join(",\n", [i \in 1..Len(keys) |->
                  "        \"" \o keys[i] \o "\": " \o JsonScalar(DictGet(x.v, keys[i]))])
            \o "\n    }"

json_dumps(fd) ==
    IF fd = <<>> THEN "{}"
    ELSE LET keys == SortChars(Keys(fd))
         IN "{\n"
            \o Join(",\n", [i \in 1..Len(keys) |->
                  "    \"" \o Text(keys[i]) \o "\": " \o JsonFieldMap(DictGet(fd, keys[i]))])
            \o "\n}"

-----------------------------------------------------------------------------
(* main *)

MaxOptions == 2
MaxDir == 3

\* the dest names of the field options of set_up_parser, in the order main
\* passes them to make_flags
CliFields ==
    << "num_channels", "bytes", "bits", "sample_rate", "sample_rate_k",
       "length", "length_ms", "length_us", "num_samples", "comp_type",
       "comp_name" >>

CliFieldSet == {CliFields[i] : i \in 1..Len(CliFields)}

\* parsed command lines with at most MaxOptions field options given
ArgSets ==
    {a \in [CliFieldSet \cup {"csv", "json", "verbose"} -> BOOLEAN] :
        Cardinality({f \in CliFieldSet : a[f]}) <= MaxOptions}

\* directory listings: distinct entries, in any order
Listings ==
    {l \in UNION {[1..n -> DirEntries] : n \in 0..MaxDir} :
        \A i, j \in 1..Len(l) : i # j => l[i] # l[j]}

\* flags = make_flags(args.num_channels, args.bytes, ...): positional
MainFlags(a) ==
    make_flags([q \in ParamSet |->
                  a[CliFields[CHOOSE i \in 1..Len(Params) : Params[i] = q]]])

\* WavMetadata(path): the header of a readable file, or the error wave.open
\* raises
WavMetadataNeverRaises(filename) ==
    CASE filename = File("a.wav") -> Return(Header(2, 2, 44100, 4))
      [] filename = File("b.wav") -> Return(Header(1, 1, 8000, 0))
      [] filename = File("c.wav") -> Return(Header(1, 1, 8000, 0))
      [] OTHER -> Raise("wave.Error")

WavMetadata(filename) ==
    CASE filename = File("a.wav") -> Return(Header(2, 2, 44100, 4))
      [] filename = File("b.wav") -> Return(Header(1, 1, 8000, 0))
      [] OTHER -> Raise("wave.Error")

\* a file on disk: what the run found there, or what it wrote
PriorFile == [written |-> FALSE, content |-> "previous content"]
Written(text) == [written |-> TRUE, content |-> text]

\* one pass of the loop over os.listdir
LoadStep(fd, filename, fl) ==
    IF ~EndsWith(filename, WavExt) THEN Return(fd)
    ELSE LET wav == WavMetadata(filename)
         IN IF wav.kind = "raise" THEN wav
            ELSE Return(StoreEntry(fd, filename, as_dict(wav.value, fl).value))

\* csv_string.replace(',', '\t'): no cell main produces holds a comma, so
\* this is the table joined with tabs
CsvTabbed(fd) ==
    TableText(FullTable(HeaderRow(CollectHeaders(fd, 1, <<>>).value), fd), "\t").value.v

\* if args.csv: convert, print, write
CsvStep(a, fd, file, out) ==
    IF ~a["csv"] THEN Return([file |-> file, out |-> out])
    ELSE LET csv_str == convert_full_data_to_csv(fd)
         IN IF csv_str.kind = "raise" THEN csv_str
            ELSE Return([file |-> Written(csv_str.value.v),
                         out |-> IF a["verbose"]
                                 THEN Append(out, CsvTabbed(fd)) ELSE out])

\* if args.json: dump, print, write
JsonStep(a, fd, file, out) ==
    IF ~a["json"] THEN Return([file |-> file, out |-> out])
    ELSE LET json_data == json_dumps(fd)
         IN Return([file |-> Written(json_data),
                    out |-> IF a["verbose"] THEN Append(out, json_data) ELSE out])

InitMain ==
    /\ args \in ArgSets
    /\ listing \in Listings
    /\ pc = "start" /\ idx = 0 /\ exc = "none"
    /\ flags = Unset /\ full_data = Unset
    /\ csv_file = PriorFile /\ json_file = PriorFile /\ stdout = <<>>
    /\ self = Unset /\ named = Unset /\ ret = Unset /\ csv_string = Unset
    /\ puts = Unset /\ csv = Unset

ParseArgs ==
    /\ pc = "start"
    /\ flags' = PyInt(MainFlags(args))
    /\ full_data' = <<>>
    /\ idx' = 1
    /\ pc' = "load"
    /\ UNCHANGED <<self, named, ret, csv_string, aggVars, args, listing, exc,
                   csv_file, json_file, stdout>>

LoadEntry ==
    /\ pc = "load" /\ idx <= Len(listing)
    /\ LET r == LoadStep(full_data, listing[idx], flags)
       IN IF r.kind = "raise"
          THEN /\ pc' = "aborted" /\ exc' = r.value
               /\ UNCHANGED <<full_data, idx>>
          ELSE /\ full_data' = r.value /\ idx' = idx + 1
               /\ UNCHANGED <<pc, exc>>
    /\ UNCHANGED <<dictVars, aggVars, args, listing, csv_file, json_file, stdout>>

LoadDone ==
    /\ pc = "load" /\ idx > Len(listing)
    /\ pc' = "csv"
    /\ UNCHANGED <<dictVars, aggVars, full_data, args, listing, idx, exc,
                   csv_file, json_file, stdout>>

WriteCsv ==
    /\ pc = "csv"
    /\ LET r == CsvStep(args, full_data, csv_file, stdout)
       IN IF r.kind = "raise"
          THEN /\ pc' = "aborted" /\ exc' = r.value
               /\ UNCHANGED <<csv_file, stdout>>
          ELSE /\ csv_file' = r.value.file /\ stdout' = r.value.out
               /\ pc' = "json" /\ UNCHANGED exc
    /\ UNCHANGED <<dictVars, aggVars, full_data, args, listing, idx, json_file>>

WriteJson ==
    /\ pc = "json"
    /\ LET r == JsonStep(args, full_data, json_file, stdout)
       IN /\ json_file' = r.value.file /\ stdout' = r.value.out
    /\ pc' = "done"
    /\ UNCHANGED <<dictVars, aggVars, full_data, args, listing, idx, exc, csv_file>>

NextMain == ParseArgs \/ LoadEntry \/ LoadDone \/ WriteCsv \/ WriteJson

SpecMain == InitMain /\ [][NextMain]_vars

\* main as a function of its command line and directory: the files it leaves
RECURSIVE LoadAll(_, _, _, _)
LoadAll(l, i, fd, fl) ==
    IF i > Len(l) THEN Return(fd)
    ELSE LET r == LoadStep(fd, l[i], fl)
         IN IF r.kind = "raise" THEN r ELSE LoadAll(l, i + 1, r.value, fl)

MainOutcome(a, l) ==
    LET loaded == LoadAll(l, 1, <<>>, PyInt(MainFlags(a)))
        left(e, c, j) == [exc |-> e, csv_file |-> c, json_file |-> j]
    IN IF loaded.kind = "raise" THEN left(loaded.value, PriorFile, PriorFile)
       ELSE LET c == CsvStep(a, loaded.value, PriorFile, <<>>)
            IN IF c.kind = "raise" THEN left(c.value, PriorFile, PriorFile)
               ELSE LET j == JsonStep(a, loaded.value, PriorFile, c.value.out)
                    IN left("none", c.value.file, j.value.file)

-----------------------------------------------------------------------------
(* Properties of as_dict and make_flags (checked under SpecDict) *)

\* the display name of each catalog field, by its Masks member
MaskDisplay ==
    [ NUM_CHANNELS |-> "Number Of Channels",
      BYTES        |-> "Bytes Per Sample",
      BITS         |-> "Bits Per Sample",
      FREQ         |-> "Sample Rate (Hz)",
      FREQK        |-> "Sample Rate (kHz)",
      LENGTH       |-> "Time Between Samples (s)",
      LENGTH_M     |-> "Time Between Samples (ms)",
      LENGTH_U     |-> "Time Between Samples (us)",
      NUM_FRAMES   |-> "Number Of Samples",
      COMP_NAME    |-> "Compression Name",
      COMP_TYPE    |-> "Compression Type" ]

\* the display name of the field each named boolean of make_flags asks for
ParamDisplay ==
    [ num_channels         |-> "Number Of Channels",
      bytes_per_sample     |-> "Bytes Per Sample",
      bits_per_sample      |-> "Bits Per Sample",
      sample_freq          |-> "Sample Rate (Hz)",
      sample_freq_kHz      |-> "Sample Rate (kHz)",
      sample_length        |-> "Time Between Samples (s)",
      sample_length_millis |-> "Time Between Samples (ms)",
      sample_length_micros |-> "Time Between Samples (us)",
      num_frames           |-> "Number Of Samples",
      comp_type            |-> "Compression Type",
      comp_name            |-> "Compression Name" ]

CatalogNames == {MaskDisplay[m] : m \in DOMAIN MaskDisplay}

\* the combination of all catalog bits
AllCatalogBits ==
    LET RECURSIVE Sum(_)
        Sum(T) == IF T = {} THEN 0
                  ELSE LET m == CHOOSE y \in T : TRUE
                       IN Masks[m] + Sum(T \ {m})
    IN Sum(DOMAIN MaskDisplay)

\* the Masks bit of member m is set in the integer n
BitSet(n, m) == (n \div Masks[m]) % 2 = 1

RetIsDict == ret # Unset /\ ret.kind = "return" /\ ret.value.t = "dict"

RetKeys == Keys(ret.value.v)

\* the Masks member a display name belongs to
MemberOf(name) == CHOOSE m \in DOMAIN MaskDisplay : MaskDisplay[m] = name

\* C1: as_dict(0) returns a map that contains all 11 catalog display names.
C1_ZeroSelectsEveryField ==
    (flags.t = "int" /\ flags.v = 0 /\ ret # Unset)
        => (RetIsDict /\ CatalogNames \subseteq KeySet(ret.value.v))

\* C2: for every flags in 1..2047, as_dict(flags) returns a map whose keys
\* are exactly the display names of the fields whose Masks bit is set.
C2_EveryCombinationAccepted ==
    (flags.t = "int" /\ 1 <= flags.v /\ flags.v <= AllCatalogBits /\ ret # Unset)
        => /\ RetIsDict
           /\ KeySet(ret.value.v) =
                 {MaskDisplay[m] : m \in {x \in DOMAIN MaskDisplay : BitSet(flags.v, x)}}

\* C3: as_dict(make_flags(...)) with at least one named boolean true returns
\* a map whose keys are exactly the display names of the fields whose named
\* boolean was true.
C3_MakeFlagsRoundTrip ==
    (named # Unset /\ (\E q \in ParamSet : named.v[q]) /\ ret # Unset)
        => /\ RetIsDict
           /\ KeySet(ret.value.v) =
                 {ParamDisplay[q] : q \in {x \in ParamSet : named.v[x]}}

\* C4: as_dict returns None, and raises nothing, for every negative flags,
\* for flags = None and for every flags above the combination of all bits.
C4_InvalidSelectionReturnsNone ==
    (flags # Unset /\ ret # Unset
       /\ (flags.t = "None" \/ flags.v < 0 \/ flags.v > AllCatalogBits))
        => ret = Return(PyNone)

\* C6 as first stated: the keys of the returned map have Number Of Channels
\* first and Compression Name last whenever they are selected.
C6_CompressionNameLast ==
    RetIsDict =>
        /\ "Number Of Channels" \in KeySet(ret.value.v)
              => RetKeys[1] = "Number Of Channels"
        /\ "Compression Name" \in KeySet(ret.value.v)
              => RetKeys[Len(RetKeys)] = "Compression Name"

\* C6: the keys of the map as_dict returns are in the order of the Masks
\* catalog (Number Of Channels first, Compression Name before Compression
\* Type, Compression Type last), whichever other fields are selected.
C6_KeysInMasksOrder ==
    RetIsDict =>
        \A i, j \in 1..Len(RetKeys) :
            i < j => Masks[MemberOf(RetKeys[i])] < Masks[MemberOf(RetKeys[j])]

\* as_dict(0) has returned a map holding both compression fields, the type
\* after the name
C6_Witness ==
    /\ RetIsDict /\ flags.v = 0
    /\ "Compression Name" \in KeySet(ret.value.v)
    /\ RetKeys[Len(RetKeys)] = "Compression Type"

-----------------------------------------------------------------------------
(* Properties of the aggregate (checked under SpecAgg) *)

AllMaps(fd) == \A i \in 1..Len(fd) : fd[i].v.t = "dict"

\* 'Filename' and then the sorted union of the display names of fd
ExpectedHeader(fd) ==
    LET present(n) == \E i \in 1..Len(fd) : n \in KeySet(fd[i].v.v)
    IN <<"Filename">> \o SelectSeq(SortedNames, present)

\* the row of one file under a header: its value in each column it selected,
\* the empty string elsewhere
ExpectedRow(header, filename, data) ==
    [c \in 1..Len(header) |->
        IF c = 1 THEN Text(filename)
        ELSE IF header[c] \in KeySet(data) THEN Str(DictGet(data, header[c]))
        ELSE ""]

\* the rectangular table of fd as text
ExpectedCsv(fd) ==
    LET header == ExpectedHeader(fd)
    IN Join("\n", <<Join(",", header)>> \o
            [i \in 1..Len(fd) |-> Join(",", ExpectedRow(header, fd[i].k, fd[i].v.v))])

\* C5: on every aggregate of field maps the conversion returns the
\* rectangular table: header 'Filename' plus the sorted union of the names,
\* one row per file as wide as the header, empty cells where a file did not
\* select the column.
C5_RectangularTable ==
    (csv # Unset /\ AllMaps(full_data))
        => csv = Return(PyStr(ExpectedCsv(full_data)))

\* C7: on the empty aggregate the conversion returns the header 'Filename'
\* alone, and raises nothing.
C7_EmptyAggregate ==
    (csv # Unset /\ full_data = <<>>) => csv = Return(PyStr("Filename"))

C7_Witness == csv # Unset /\ full_data = <<>>

\* the file name keys supplied so far, each once, in the order first supplied
RECURSIVE SuppliedKeys(_)
SuppliedKeys(h) ==
    IF h = <<>> THEN <<>>
    ELSE LET before == SuppliedKeys(SubSeq(h, 1, Len(h) - 1))
             entry == h[Len(h)][1]
         IN IF ~EndsWith(entry, WavExt) THEN before
            ELSE IF \E i \in 1..Len(before) : before[i] = StripExt(entry)
            THEN before
            ELSE Append(before, StripExt(entry))

\* the field map supplied last for a key
LastSupplied(h, key) ==
    h[CHOOSE i \in 1..Len(h) :
        /\ EndsWith(h[i][1], WavExt) /\ StripExt(h[i][1]) = key
        /\ \A j \in (i + 1)..Len(h) :
              ~(EndsWith(h[j][1], WavExt) /\ StripExt(h[j][1]) = key)][2]

\* the aggregate the history of supplied pairs describes
SuppliedAggregate(h) ==
    LET keys == SuppliedKeys(h)
    IN [i \in 1..Len(keys) |-> Item(keys[i], LastSupplied(h, keys[i]))]

\* C9: the data rows of a CSV the conversion returns are one per distinct
\* file name key, in the order the keys were first added, none for an entry
\* not ending in '.wav', each row showing the map supplied last for its key.
C9_RowsInInsertionOrder ==
    (csv # Unset /\ csv.kind = "return")
        => csv.value.v = ExpectedCsv(SuppliedAggregate(puts))

\* b was added before a and then supplied again with another map: the CSV
\* has the row of b first, with the later value
C9_Witness ==
    /\ csv # Unset /\ csv.kind = "return"
    /\ Len(puts) = 3
    /\ puts[1][1] = File("b.wav") /\ puts[2][1] = File("a.wav")
    /\ puts[3][1] = File("b.wav") /\ puts[3][2] # puts[1][2]
    /\ puts[1][2].t = "dict"
    /\ Len(full_data) = 2

-----------------------------------------------------------------------------
(* Properties of main (checked under SpecMain) *)

Unreadable(filename) ==
    EndsWith(filename, WavExt) /\ filename \notin {File("a.wav"), File("b.wav")}

\* C8: no output file is written before every '.wav' entry of the directory
\* has been read successfully; a run with an unreadable '.wav' entry aborts
\* and leaves both output files as it found them.
C8_NoOutputBeforeAllRead ==
    /\ (csv_file.written \/ json_file.written)
          => /\ idx > Len(listing)
             /\ \A i \in 1..Len(listing) : ~Unreadable(listing[i])
    /\ (\E i \in 1..Len(listing) : Unreadable(listing[i]))
          => /\ csv_file = PriorFile /\ json_file = PriorFile
             /\ pc # "done"

\* a run asked for both files has read one file and aborted on the next
C8_Witness ==
    /\ pc = "aborted" /\ exc = "wave.Error"
    /\ args["csv"] /\ args["json"]
    /\ idx = 2 /\ Len(full_data) = 1
    /\ csv_file = PriorFile /\ json_file = PriorFile

\* C10: the JSON file a finished run leaves is the one the run without the
\* CSV flag leaves, the CSV file is the one the run without the JSON flag
\* leaves, and a file whose flag is not set is not written.
C10_OutputsIndependent ==
    pc \in {"done", "aborted"} =>
        /\ args["json"] =>
              json_file = MainOutcome([args EXCEPT !["csv"] = FALSE], listing).json_file
        /\ args["csv"] =>
              csv_file = MainOutcome([args EXCEPT !["json"] = FALSE], listing).csv_file
        /\ ~args["csv"] => ~csv_file.written
        /\ ~args["json"] => ~json_file.written

=============================================================================
